---------------------------- MODULE Spec2Model ----------------------------
(***************************************************************************)
(* Slew rate limiter of GeneralEmbeddedCLibraries/rate_limiter.            *)
(*                                                                         *)
(* src/src/rate_limiter.c is the library; src/unnamed/part_000 is an older *)
(* variant of the same file (definitions prefixed v_).                     *)
(*                                                                         *)
(* float32_t values are modelled by a binary floating point format with    *)
(* the same rounding rule as IEEE-754 single precision (round to nearest,  *)
(* ties to even) but a significand of FPrec bits instead of 24 and a       *)
(* smallest spacing of 1: the representable values are m * 2^e with        *)
(* 0 <= m < 2^FPrec and e >= 0.  Every arithmetic operation of the code is *)
(* the exact operation followed by rounding, as in C.                      *)
(***************************************************************************)
EXTENDS Integers, FiniteSets, Sequences, TLC

(***************************************************************************)
(* Bounds of the model.                                                    *)
(***************************************************************************)
FPrec   == 2    \* significand bits of the modelled float32_t
MaxMag  == 6    \* largest magnitude of a signal value

(***************************************************************************)
(* float32_t                                                               *)
(***************************************************************************)
RECURSIVE Pow2(_)
Pow2(n) == IF n = 0 THEN 1 ELSE 2 * Pow2(n - 1)

\* spacing of the representable values around the magnitude a
RECURSIVE Ulp(_)
Ulp(a) == IF a < Pow2(FPrec) THEN 1 ELSE 2 * Ulp(a \div 2)

\* round a magnitude to the nearest representable value, ties to even
RoundMag(a) ==
    LET q   == Ulp(a)
        lo  == (a \div q) * q
        rem == a - lo
    IN  IF 2 * rem < q THEN lo
        ELSE IF 2 * rem > q THEN lo + q
        ELSE IF (lo \div q) % 2 = 0 THEN lo ELSE lo + q

\* the float32_t nearest to the exact value z
float32_t(z) == IF z >= 0 THEN RoundMag(z) ELSE -RoundMag(-z)

\* NAN of <math.h>: a value outside the modelled range on which every
\* ordered comparison is false
NAN == 1000000

FAdd(a, b) == float32_t(a + b)
FSub(a, b) == float32_t(a - b)
FMul(a, b) == float32_t(a * b)
FNeg(a)    == IF a = NAN THEN NAN ELSE -a

\* the quotient a / b (b # 0), rounded to the nearest representable value,
\* ties to even
FDiv(a, b) ==
    LET n  == IF a >= 0 THEN a ELSE -a
        d  == IF b >= 0 THEN b ELSE -b
        qf == n \div d
        r2 == 2 * (n - qf * d)
        qn == IF r2 < d THEN qf
              ELSE IF r2 > d THEN qf + 1
              ELSE IF qf % 2 = 0 THEN qf ELSE qf + 1
        s  == IF (a >= 0) = (b >= 0) THEN 1 ELSE -1
    IN  s * RoundMag(qn)

FGe(a, b) == a # NAN /\ b # NAN /\ a >= b
FLe(a, b) == a # NAN /\ b # NAN /\ a <= b

Floats == { v \in -MaxMag..MaxMag : float32_t(v) = v }

(***************************************************************************)
(* Inputs of the calls                                                     *)
(***************************************************************************)
Rates == {-1, 0, 1, 2}     \* rise_rate, fall_rate
Dts   == {-1, 0, 1, 2}     \* dt
Xs    == Floats            \* x

(***************************************************************************)
(* rate_limiter.h                                                          *)
(***************************************************************************)
eRATE_LIMITER_OK    == 0
eRATE_LIMITER_ERROR == 1

\* the null handle
NULL == [null |-> TRUE]

(***************************************************************************)
(* rate_limiter.c                                                          *)
(***************************************************************************)

\* struct rate_limiter_s
rate_limiter_t(x_prev, k_rise, k_fall, dt, is_init) ==
    [x_prev |-> x_prev, k_rise |-> k_rise, k_fall |-> k_fall,
     dt |-> dt, is_init |-> is_init]

rate_limiter_calc_rate_factor(dt, slew_rate) == FMul(slew_rate, dt)

\* rate_limiter_init without the test of dt
init_always_alloc(p_valid, h, rise_rate, fall_rate, dt, mem) ==
    IF p_valid
    THEN [status |-> eRATE_LIMITER_OK,
          inst   |-> rate_limiter_t(0, rate_limiter_calc_rate_factor(dt, rise_rate),
                                    rate_limiter_calc_rate_factor(dt, fall_rate),
                                    dt, TRUE),
          malloc |-> TRUE]
    ELSE [status |-> eRATE_LIMITER_ERROR, inst |-> h, malloc |-> FALSE]

\* rate_limiter_init keeping the previous value of a live instance
init_keep_prev(p_valid, h, rise_rate, fall_rate, dt, mem) ==
    IF p_valid /\ dt > 0
    THEN IF mem
         THEN [status |-> eRATE_LIMITER_OK,
               inst   |-> rate_limiter_t(IF h = NULL THEN 0 ELSE h.x_prev,
                              rate_limiter_calc_rate_factor(dt, rise_rate),
                              rate_limiter_calc_rate_factor(dt, fall_rate),
                              dt, TRUE),
               malloc |-> TRUE]
         ELSE [status |-> eRATE_LIMITER_OK, inst |-> NULL, malloc |-> TRUE]
    ELSE [status |-> eRATE_LIMITER_ERROR, inst |-> h, malloc |-> FALSE]

\* p_valid: p_rl_inst is not NULL; h: the value of *p_rl_inst at the call;
\* mem: malloc returns storage.  inst is *p_rl_inst after the call, malloc
\* tells whether malloc was called.
rate_limiter_init(p_valid, h, rise_rate, fall_rate, dt, mem) ==
    IF p_valid /\ dt > 0
    THEN IF mem
         THEN [status |-> eRATE_LIMITER_OK,
               inst   |-> rate_limiter_t(0,
                              rate_limiter_calc_rate_factor(dt, rise_rate),
                              rate_limiter_calc_rate_factor(dt, fall_rate),
                              dt, TRUE),
               malloc |-> TRUE]
         ELSE [status |-> eRATE_LIMITER_OK, inst |-> NULL, malloc |-> TRUE]
    ELSE [status |-> eRATE_LIMITER_ERROR, inst |-> h, malloc |-> FALSE]

\* rate_limiter_update adding the rise factor twice
update_double_step(h, x) ==
    IF h # NULL /\ h.is_init
    THEN LET dx == FSub(x, h.x_prev)
             y  == IF dx >= h.k_rise THEN FAdd(FAdd(h.x_prev, h.k_rise), h.k_rise)
                   ELSE IF dx <= FNeg(h.k_fall) THEN FSub(h.x_prev, h.k_fall)
                   ELSE x
         IN  [y |-> y, inst |-> [h EXCEPT !.x_prev = y]]
    ELSE [y |-> 0, inst |-> h]

\* rate_limiter_update falling by the rise factor
update_fall_by_rise(h, x) ==
    IF h # NULL /\ h.is_init
    THEN LET dx == FSub(x, h.x_prev)
             y  == IF dx >= h.k_rise THEN FAdd(h.x_prev, h.k_rise)
                   ELSE IF dx <= FNeg(h.k_fall) THEN FSub(h.x_prev, h.k_rise)
                   ELSE x
         IN  [y |-> y, inst |-> [h EXCEPT !.x_prev = y]]
    ELSE [y |-> 0, inst |-> h]

\* rate_limiter_update passing the input through when there is no instance
update_passes_null(h, x) ==
    IF h # NULL /\ h.is_init
    THEN LET dx == FSub(x, h.x_prev)
             y  == IF dx >= h.k_rise THEN FAdd(h.x_prev, h.k_rise)
                   ELSE IF dx <= FNeg(h.k_fall) THEN FSub(h.x_prev, h.k_fall)
                   ELSE x
         IN  [y |-> y, inst |-> [h EXCEPT !.x_prev = y]]
    ELSE [y |-> x, inst |-> h]

\* rate_limiter_update keeping the previous value where it should pass x
update_sticky(h, x) ==
    IF h # NULL /\ h.is_init
    THEN LET dx == FSub(x, h.x_prev)
             y  == IF dx >= h.k_rise THEN FAdd(h.x_prev, h.k_rise)
                   ELSE IF dx <= FNeg(h.k_fall) THEN FSub(h.x_prev, h.k_fall)
                   ELSE h.x_prev
         IN  [y |-> y, inst |-> [h EXCEPT !.x_prev = y]]
    ELSE [y |-> 0, inst |-> h]

rate_limiter_update(h, x) ==
    IF h # NULL /\ h.is_init
    THEN LET dx == FSub(x, h.x_prev)
             y  == IF dx >= h.k_rise THEN FAdd(h.x_prev, h.k_rise)
                   ELSE IF dx <= FNeg(h.k_fall) THEN FSub(h.x_prev, h.k_fall)
                   ELSE x
         IN  [y |-> y, inst |-> [h EXCEPT !.x_prev = y]]
    ELSE [y |-> 0, inst |-> h]

rate_limiter_is_init(h) == IF h # NULL THEN h.is_init ELSE FALSE

\* rate_limiter_change_rate storing the rates as the factors
change_rate_nodt(h, rise_rate, fall_rate) ==
    IF h # NULL /\ h.is_init
    THEN [status |-> eRATE_LIMITER_OK,
          inst   |-> [h EXCEPT !.k_rise = rise_rate, !.k_fall = fall_rate]]
    ELSE [status |-> eRATE_LIMITER_ERROR, inst |-> h]

rate_limiter_change_rate(h, rise_rate, fall_rate) ==
    IF h # NULL /\ h.is_init
    THEN [status |-> eRATE_LIMITER_OK,
          inst   |-> [h EXCEPT
                        !.k_rise = rate_limiter_calc_rate_factor(h.dt, rise_rate),
                        !.k_fall = rate_limiter_calc_rate_factor(h.dt, fall_rate)]]
    ELSE [status |-> eRATE_LIMITER_ERROR, inst |-> h]


(***************************************************************************)
(* The caller: one handle, `p_rate_limiter my_rate_limiter_inst = NULL;`   *)
(* as in README.md, and any sequence of calls of the four functions on it. *)
(***************************************************************************)
VARIABLES
    rl_inst,    \* the caller's handle: NULL or the instance it points to
    last,       \* the last call: its arguments, the handle before it, its result
    cfg,        \* the arguments in force: the rates of the last create or
                \* change_rate that took effect (by), the dt of that create
    created,    \* how the last create ended: "never", "ok", "nomem", "rejected"
    hold,       \* the caller holding one input (StartHold, HoldUpdate)
    v_inst,     \* the handle of the caller of the variant
    v_last      \* the result of the last call of the variant

vars == <<rl_inst, last, cfg, created, hold, v_inst, v_last>>

NoCfg  == [by |-> "none", rise_rate |-> 0, fall_rate |-> 0, dt |-> 0]
NoHold == [on |-> FALSE, x |-> 0, from |-> 0, reached |-> FALSE,
           inexact |-> FALSE, tick |-> FALSE]
NoRet  == [status |-> eRATE_LIMITER_OK, y |-> 0, flag |-> FALSE]

\* malloc: the call called malloc; mem: malloc returned storage
Call(op, p_valid, dt, x, pre, status, y, flag, malloc, mem) ==
    [op |-> op, p_valid |-> p_valid, dt |-> dt, x |-> x, pre |-> pre,
     status |-> status, y |-> y, flag |-> flag, malloc |-> malloc, mem |-> mem]

Init ==
    /\ rl_inst = NULL
    /\ last = Call("none", FALSE, 0, 0, NULL, eRATE_LIMITER_OK, 0, FALSE, FALSE, FALSE)
    /\ cfg = NoCfg
    /\ created = "never"
    /\ hold = NoHold
    /\ v_inst = NULL
    /\ v_last = NoRet

\* status = rate_limiter_init( &my_rate_limiter_inst, rise_rate, fall_rate, dt ),
\* or rate_limiter_init( NULL, ... ) when p_valid is FALSE
DoInit(p_valid, rise_rate, fall_rate, dt, mem) ==
    LET r == rate_limiter_init(p_valid, rl_inst, rise_rate, fall_rate, dt, mem)
    IN  /\ rl_inst' = r.inst
        /\ last' = Call("init", p_valid, dt, 0, rl_inst,
                        r.status, 0, FALSE, r.malloc, r.malloc /\ mem)
        /\ cfg' = IF r.malloc
                  THEN IF mem
                       THEN [by |-> "init", rise_rate |-> rise_rate,
                             fall_rate |-> fall_rate, dt |-> dt]
                       ELSE NoCfg
                  ELSE cfg
        /\ created' = IF ~r.malloc THEN "rejected"
                      ELSE IF mem THEN "ok" ELSE "nomem"

\* y = rate_limiter_update( my_rate_limiter_inst, x )
DoUpdate(x) ==
    LET r == rate_limiter_update(rl_inst, x)
    IN  /\ r.y \in Floats
        /\ rl_inst' = r.inst
        /\ last' = Call("update", FALSE, 0, x, rl_inst,
                        eRATE_LIMITER_OK, r.y, FALSE, FALSE, FALSE)
        /\ UNCHANGED <<cfg, created>>

\* flag = rate_limiter_is_init( my_rate_limiter_inst )
DoIsInit ==
    /\ last' = Call("is_init", FALSE, 0, 0, rl_inst,
                    eRATE_LIMITER_OK, 0, rate_limiter_is_init(rl_inst), FALSE, FALSE)
    /\ UNCHANGED <<rl_inst, cfg, created>>

\* status = rate_limiter_change_rate( my_rate_limiter_inst, rise_rate, fall_rate )
DoChangeRate(rise_rate, fall_rate) ==
    LET r == rate_limiter_change_rate(rl_inst, rise_rate, fall_rate)
    IN  /\ rl_inst' = r.inst
        /\ last' = Call("change_rate", FALSE, 0, 0, rl_inst,
                        r.status, 0, FALSE, FALSE, FALSE)
        /\ cfg' = IF r.status = eRATE_LIMITER_OK
                  THEN [cfg EXCEPT !.by = "change_rate", !.rise_rate = rise_rate,
                                   !.fall_rate = fall_rate]
                  ELSE cfg
        /\ UNCHANGED created

\* the outcomes of malloc in a call of rate_limiter_init: it is called only
\* with a valid p_rl_inst and dt > 0
MallocOutcomes(p_valid, dt) == IF p_valid /\ dt > 0 THEN BOOLEAN ELSE {FALSE}

CallInit ==
    /\ ~hold.on
    /\ \E p_valid \in BOOLEAN, rise_rate \in Rates, fall_rate \in Rates, dt \in Dts :
          \E mem \in MallocOutcomes(p_valid, dt) :
             DoInit(p_valid, rise_rate, fall_rate, dt, mem)
    /\ UNCHANGED <<hold, v_inst, v_last>>

CallUpdate ==
    /\ ~hold.on
    /\ \E x \in Xs : DoUpdate(x)
    /\ UNCHANGED <<hold, v_inst, v_last>>

CallIsInit ==
    /\ ~hold.on
    /\ DoIsInit
    /\ UNCHANGED <<hold, v_inst, v_last>>

CallChangeRate ==
    /\ ~hold.on
    /\ \E rise_rate \in Rates, fall_rate \in Rates : DoChangeRate(rise_rate, fall_rate)
    /\ UNCHANGED <<hold, v_inst, v_last>>

Next == CallInit \/ CallUpdate \/ CallIsInit \/ CallChangeRate

Spec == Init /\ [][Next]_vars


(***************************************************************************)
(* The caller holding one input: on a Ready instance with positive         *)
(* increments it calls update with some x (StartHold) and from then on     *)
(* only update with the same x (HoldUpdate).  The calls are periodic       *)
(* (README.md: `loop @SAMPLE_TIME`), so the next call always comes:        *)
(* WF_vars(HoldUpdate).  hold records the held x, previous_output at the   *)
(* first held call (from), whether a held call has returned x (reached),   *)
(* whether an operation of a held call was rounded (inexact), and the      *)
(* parity of the number of held calls (tick).                              *)
(***************************************************************************)

\* the float32_t operations of rate_limiter_update(h, x) are all exact
ExactStep(h, x) ==
    LET dx == FSub(x, h.x_prev)
    IN  /\ dx = x - h.x_prev
        /\ IF dx >= h.k_rise THEN FAdd(h.x_prev, h.k_rise) = h.x_prev + h.k_rise
           ELSE IF dx <= FNeg(h.k_fall)
                THEN FSub(h.x_prev, h.k_fall) = h.x_prev - h.k_fall
                ELSE TRUE

StartHold ==
    /\ ~hold.on
    /\ rl_inst # NULL
    /\ rl_inst.is_init
    /\ rl_inst.k_rise > 0
    /\ rl_inst.k_fall > 0
    /\ \E x \in Xs :
          /\ DoUpdate(x)
          /\ hold' = [NoHold EXCEPT
                        !.on = TRUE, !.x = x, !.from = rl_inst.x_prev,
                        !.reached = rate_limiter_update(rl_inst, x).y = x,
                        !.inexact = ~ExactStep(rl_inst, x)]
    /\ UNCHANGED <<v_inst, v_last>>

HoldUpdate ==
    /\ hold.on
    /\ DoUpdate(hold.x)
    /\ hold' = [hold EXCEPT !.tick = ~@,
                            !.reached = @ \/ rate_limiter_update(rl_inst, hold.x).y = hold.x,
                            !.inexact = @ \/ ~ExactStep(rl_inst, hold.x)]
    /\ UNCHANGED <<v_inst, v_last>>

NextHold ==
    \/ CallInit
    \/ CallUpdate
    \/ CallIsInit
    \/ CallChangeRate
    \/ StartHold
    \/ HoldUpdate

SpecHold == Init /\ [][NextHold]_vars /\ WF_vars(HoldUpdate)

(***************************************************************************)
(* src/unnamed/part_000: the variant of rate_limiter.c                     *)
(***************************************************************************)

\* what the dt field of storage fresh from malloc may hold
GarbageDts == {-1, 0, 1, 2}

v_rate_limiter_calc_rate_factor(h, slew_rate) ==
    IF h.dt # 0 THEN FDiv(slew_rate, h.dt) ELSE NAN

\* h: the value of *p_rl_inst at the call (p_rl_inst itself is dereferenced
\* unchecked); garbage: the dt field of the fresh storage, read by
\* rate_limiter_calc_rate_factor before it is assigned
v_rate_limiter_init(h, rise_rate, fall_rate, dt, mem, garbage) ==
    IF h # NULL /\ dt > 0
    THEN IF mem
         THEN LET fresh == [dt |-> garbage]
              IN  [status |-> eRATE_LIMITER_OK,
                   inst   |-> rate_limiter_t(0,
                                  v_rate_limiter_calc_rate_factor(fresh, rise_rate),
                                  v_rate_limiter_calc_rate_factor(fresh, fall_rate),
                                  dt, TRUE)]
         ELSE [status |-> eRATE_LIMITER_OK, inst |-> NULL]
    ELSE [status |-> eRATE_LIMITER_ERROR, inst |-> h]

v_rate_limiter_update(h, x) ==
    IF h # NULL /\ h.is_init
    THEN LET dx == FSub(x, h.x_prev)
             y  == IF FGe(dx, h.k_rise) THEN FAdd(h.x_prev, h.k_rise)
                   ELSE IF FLe(dx, FNeg(h.k_fall)) THEN FSub(h.x_prev, h.k_fall)
                   ELSE 0
         IN  [y |-> y, inst |-> [h EXCEPT !.x_prev = y]]
    ELSE [y |-> 0, inst |-> h]

v_rate_limiter_is_init(h) == IF h # NULL THEN h.is_init ELSE FALSE

v_rate_limiter_change_rate(h, rise_rate, fall_rate) ==
    IF h # NULL /\ h.is_init
    THEN [status |-> eRATE_LIMITER_OK,
          inst   |-> [h EXCEPT
                        !.k_rise = v_rate_limiter_calc_rate_factor(h, rise_rate),
                        !.k_fall = v_rate_limiter_calc_rate_factor(h, fall_rate)]]
    ELSE [status |-> eRATE_LIMITER_ERROR, inst |-> h]

(***************************************************************************)
(* Two callers in lockstep, one linked with rate_limiter.c and one with    *)
(* the variant: both start from a NULL handle and make the same calls with *)
(* the same arguments, each passing the address of its own handle; malloc  *)
(* has the same outcome for both.                                          *)
(***************************************************************************)
Ret(status, y, flag) == [status |-> status, y |-> y, flag |-> flag]

EqInit ==
    /\ \E rise_rate \in Rates, fall_rate \in Rates, dt \in Dts, garbage \in GarbageDts :
        \E mem \in MallocOutcomes(TRUE, dt) :
          /\ DoInit(TRUE, rise_rate, fall_rate, dt, mem)
          /\ LET v == v_rate_limiter_init(v_inst, rise_rate, fall_rate, dt, mem, garbage)
             IN  /\ v_inst' = v.inst
                 /\ v_last' = Ret(v.status, 0, FALSE)
    /\ UNCHANGED hold

EqUpdate ==
    /\ \E x \in Xs :
          /\ DoUpdate(x)
          /\ LET v == v_rate_limiter_update(v_inst, x)
             IN  /\ v_inst' = v.inst
                 /\ v_last' = Ret(eRATE_LIMITER_OK, v.y, FALSE)
    /\ UNCHANGED hold

EqIsInit ==
    /\ DoIsInit
    /\ v_last' = Ret(eRATE_LIMITER_OK, 0, v_rate_limiter_is_init(v_inst))
    /\ UNCHANGED <<hold, v_inst>>

EqChangeRate ==
    /\ \E rise_rate \in Rates, fall_rate \in Rates :
          /\ DoChangeRate(rise_rate, fall_rate)
          /\ LET v == v_rate_limiter_change_rate(v_inst, rise_rate, fall_rate)
             IN  /\ v_inst' = v.inst
                 /\ v_last' = Ret(v.status, 0, FALSE)
    /\ UNCHANGED hold

NextEq == EqInit \/ EqUpdate \/ EqIsInit \/ EqChangeRate

SpecEq == Init /\ [][NextEq]_vars


(***************************************************************************)
(* The claims.  In them p + r, p - f, x - p and rate * dt are the float32_t *)
(* operations of the code: the values they relate are float32_t values.    *)
(***************************************************************************)
Ready(h) == h # NULL /\ h.is_init

\* the last call was update on a Ready instance
UpdatedReady == last.op = "update" /\ Ready(last.pre)

\* the change of the input against the previous output in the last update
LastDx == FSub(last.x, last.pre.x_prev)

\* C1: slew cap.  Every update on a Ready instance whose increments are
\* non-negative returns y with p - fall_increment <= y <= p + rise_increment,
\* p being previous_output going into the call.
C1_SlewCap ==
    (UpdatedReady /\ last.pre.k_rise >= 0 /\ last.pre.k_fall >= 0)
        => /\ FSub(last.pre.x_prev, last.pre.k_fall) <= last.y
           /\ last.y <= FAdd(last.pre.x_prev, last.pre.k_rise)

\* an update, not the first after create, that was clamped at the cap
C1_Witness ==
    /\ UpdatedReady
    /\ last.pre.k_rise > 0
    /\ last.pre.k_fall > 0
    /\ last.pre.x_prev # 0
    /\ last.y = FAdd(last.pre.x_prev, last.pre.k_rise)
    /\ last.y < last.x
    /\ cfg.by = "change_rate"

\* C2: create with dt > 0 whose allocation fails returns ERROR and leaves
\* the caller's handle NULL.
C2_AllocFailureIsError ==
    (last.op = "init" /\ last.p_valid /\ last.dt > 0 /\ last.malloc /\ ~last.mem)
        => /\ last.status = eRATE_LIMITER_ERROR
           /\ rl_inst = NULL

\* C3: the update rule.  On a Ready instance update returns p + r if
\* x - p >= r, else p - f if x - p <= -f, else x; afterwards previous_output
\* is the returned value and no other field has changed.
C3_UpdateRule ==
    UpdatedReady
        => /\ (LastDx >= last.pre.k_rise)
                 => last.y = FAdd(last.pre.x_prev, last.pre.k_rise)
           /\ (LastDx < last.pre.k_rise /\ LastDx <= -last.pre.k_fall)
                 => last.y = FSub(last.pre.x_prev, last.pre.k_fall)
           /\ (LastDx < last.pre.k_rise /\ LastDx > -last.pre.k_fall)
                 => last.y = last.x
           /\ rl_inst.x_prev = last.y
           /\ rl_inst.k_rise = last.pre.k_rise
           /\ rl_inst.k_fall = last.pre.k_fall
           /\ rl_inst.dt = last.pre.dt
           /\ rl_inst.is_init = last.pre.is_init

\* an update that passed its input through and moved the output
C3_Witness ==
    /\ UpdatedReady
    /\ LastDx < last.pre.k_rise
    /\ LastDx > -last.pre.k_fall
    /\ last.x # last.pre.x_prev
    /\ last.y = last.x
    /\ rl_inst.x_prev = last.x

\* C4 as claimed: whatever rise_increment is, x - p <= -f makes update
\* return p - f.
C4_FallClampAnyRise ==
    (UpdatedReady /\ LastDx <= -last.pre.k_fall)
        => last.y = FSub(last.pre.x_prev, last.pre.k_fall)

\* C4 as amended: x - p <= -f makes update return p - f when the rise test,
\* which is made first, does not apply (x - p < r), and whenever both
\* increments are non-negative.
C4_FallClamp ==
    (/\ UpdatedReady
     /\ LastDx <= -last.pre.k_fall
     /\ \/ LastDx < last.pre.k_rise
        \/ (last.pre.k_rise >= 0 /\ last.pre.k_fall >= 0))
        => last.y = FSub(last.pre.x_prev, last.pre.k_fall)

\* an update clamped on the way down, with increments that differ
C4_Witness ==
    /\ UpdatedReady
    /\ last.pre.k_fall > 0
    /\ last.pre.k_rise # last.pre.k_fall
    /\ LastDx < -last.pre.k_fall
    /\ last.y = FSub(last.pre.x_prev, last.pre.k_fall)
    /\ last.y > last.x

\* C5: on a NULL handle, or an instance whose is_init is false, update
\* returns 0.0, is_init returns false, change_rate returns ERROR, and the
\* handle and the instance are as before; the handle left by a create whose
\* allocation failed is such a handle.
C5_UninitializedSafe ==
    /\ (last.op = "update" /\ ~Ready(last.pre))
          => (last.y = 0 /\ rl_inst = last.pre)
    /\ (last.op = "is_init" /\ ~Ready(last.pre))
          => (last.flag = FALSE /\ rl_inst = last.pre)
    /\ (last.op = "change_rate" /\ ~Ready(last.pre))
          => (last.status = eRATE_LIMITER_ERROR /\ rl_inst = last.pre)
    /\ (created = "nomem") => ~Ready(rl_inst)

\* update with a non-zero input on the handle left by a create whose
\* allocation failed
C5_Witness ==
    /\ created = "nomem"
    /\ last.op = "update"
    /\ last.pre = NULL
    /\ last.x # 0
    /\ last.y = 0

\* C6: create with dt <= 0 returns ERROR, allocates nothing and leaves the
\* caller's handle as it was.
C6_CreateValidation ==
    (last.op = "init" /\ last.dt <= 0)
        => /\ last.status = eRATE_LIMITER_ERROR
           /\ ~last.malloc
           /\ rl_inst = last.pre

\* create with dt <= 0 on an unset handle
C6_Witness ==
    /\ last.op = "init"
    /\ last.p_valid
    /\ last.dt <= 0
    /\ last.pre = NULL
    /\ rl_inst = NULL
    /\ last.status = eRATE_LIMITER_ERROR

\* C7: create with dt > 0 whose allocation succeeds returns OK and leaves
\* the handle on a Ready instance with previous_output 0.0, increments
\* rate * dt and period dt, whatever the handle was before.
C7_CreateSuccess ==
    (last.op = "init" /\ last.p_valid /\ last.dt > 0 /\ last.mem)
        => /\ last.status = eRATE_LIMITER_OK
           /\ cfg.by = "init"
           /\ cfg.dt = last.dt
           /\ rl_inst = rate_limiter_t(0, FMul(cfg.rise_rate, last.dt),
                                       FMul(cfg.fall_rate, last.dt), last.dt, TRUE)

\* create on a handle that referred to an instance whose output had moved
C7_Witness ==
    /\ last.op = "init"
    /\ last.dt = 2
    /\ last.mem
    /\ Ready(last.pre)
    /\ last.pre.x_prev # 0
    /\ cfg.rise_rate = 1
    /\ cfg.fall_rate = 2
    /\ rl_inst.x_prev = 0

\* C8: change_rate on a Ready instance returns OK, sets the increments to
\* rate * period with the period stored at creation and changes nothing
\* else; an update on a Ready instance clamps with the increments of the
\* rates last set.
C8_Reconfiguration ==
    /\ (last.op = "change_rate" /\ Ready(last.pre))
          => /\ last.status = eRATE_LIMITER_OK
             /\ cfg.by = "change_rate"
             /\ rl_inst = [last.pre EXCEPT
                             !.k_rise = FMul(cfg.rise_rate, cfg.dt),
                             !.k_fall = FMul(cfg.fall_rate, cfg.dt)]
    /\ Ready(rl_inst) => rl_inst.dt = cfg.dt
    /\ UpdatedReady
          => LET r == FMul(cfg.rise_rate, cfg.dt)
                 f == FMul(cfg.fall_rate, cfg.dt)
             IN  last.y = IF LastDx >= r THEN FAdd(last.pre.x_prev, r)
                          ELSE IF LastDx <= -f THEN FSub(last.pre.x_prev, f)
                          ELSE last.x

\* an update clamped with the increment of a change_rate, on an instance
\* whose period is not 1
C8_Witness ==
    /\ UpdatedReady
    /\ cfg.by = "change_rate"
    /\ cfg.dt = 2
    /\ cfg.rise_rate = 1
    /\ last.y = FAdd(last.pre.x_prev, 2)
    /\ last.y < last.x


\* y lies between p and x
Between(p, y, x) == (p <= y /\ y <= x) \/ (x <= y /\ y <= p)

\* the last call was an update of the held input, and it returned that input
HeldReached == hold.on /\ last.y = hold.x

C10_VariantsAgree ==
    (last.op # "none") => v_last = Ret(last.status, last.y, last.flag)

=============================================================================
